---- MODULE Spec2Model ----
(***************************************************************************)
(* ConsensusNetworkSender (core/src/pos/consensus/network_interface.rs):   *)
(* the interface between the consensus engine and the network layer.       *)
(* Callers (tasks) invoke send_to, send_to_many, send_rpc and              *)
(* send_self_msg concurrently; the network collaborator mutates the peer   *)
(* table, the request manager completes outstanding requests, and the      *)
(* local message loop consumes the loopback queue.                         *)
(***************************************************************************)
EXTENDS Integers, Sequences, FiniteSets, TLC

\* ---------------------------------------------------------------- bounds
NumTasks == 2          \* concurrent call sites
MaxCalls == 2          \* send_to, send_to_many and send_rpc calls in one run
MaxSelfMsgs == 3       \* send_self_msg calls in one run
MaxRecipients == 2     \* longest recipient sequence given to send_to_many

Tasks == 1..NumTasks
\* send_to and send_to_many take `&mut self`: a sender value serves one direct
\* send at a time, and clones share nothing but the peer table, which they
\* only read.  One task owns the sender used for direct sends.
DirectSenders == {1}
Addresses == {"A1", "A2"}          \* participant addresses (PeerId)
NodeIds == {"n1", "n2"}            \* peer handles (NodeId)
NoPeer == "none"                   \* peers.get(..) = None / recipient = None
Payloads == {"p1", "p2"}           \* payloads of the envelopes sent to self
DirectMsgs == {"m1"}               \* messages given to the direct sender

\* The variants of ConsensusMsg, in declaration order.
ConsensusMsg == <<"BlockRetrievalRequest", "BlockRetrievalResponse",
                  "EpochRetrievalRequest", "ProposalMsg", "SyncInfo",
                  "EpochChangeProof", "VoteMsg">>
\* The variants the callers of the model send to themselves.
SelfKinds == {ConsensusMsg[4], ConsensusMsg[7]}

VARIABLES
    peers,             \* protocol_handler.peers: address -> handle or NoPeer
    task,              \* per call site: position, arguments, locals, result
    calls,             \* number of calls issued so far (also the call ids)
    self_calls,        \* number of send_self_msg calls issued so far
    handoffs,          \* transport hand-offs attempted by the direct sender
    slots,             \* oneshot channels created by send_rpc, by call id
    requests,          \* requests held by the request manager
    issued,            \* ids of requests ever handed to the request manager
    queues,            \* consensus_messages_tx: key -> FIFO of envelopes
    receiver_dropped,  \* the loopback receiver has been torn down
    observed,          \* envelopes the loopback consumer has observed, in order
    pushes             \* envelopes accepted by the loopback queue so far

vars == <<peers, task, calls, self_calls, handoffs, slots, requests, issued,
          queues, receiver_dropped, observed, pushes>>

rpcVars == <<slots, requests, issued>>
loopVars == <<queues, receiver_dropped, observed, pushes>>

\* ------------------------------------------------------------- outcomes
Outcome(tag, what, id) == [tag |-> tag, what |-> what, id |-> id]
NoOutcome == Outcome("none", "", 0)
OkUnit == Outcome("Ok", "()", 0)

IdleTask == [pc |-> "idle", op |-> "none", id |-> 0, recipients |-> <<>>,
             msg |-> "m1", i |-> 0, peer_id |-> NoPeer, resolved |-> <<>>,
             attempts |-> <<>>, ret |-> NoOutcome, suspended |-> FALSE,
             ctx |-> "none", outcomes |-> 0]
\* id: the call id of a send_rpc (its slot and request carry it);
\* resolved: what peers_get gave for each recipient so far; attempts: the
\* hand-offs made in this call; suspended: the call reached its await;
\* ctx: whether send_rpc obtained the context; outcomes: terminal outcomes
\* delivered to the caller of this call.

\* All sequences over S of length 0..n.
SeqsUpTo(S, n) == UNION {[1..k -> S] : k \in 0..n}

Keys == Addresses \X SelfKinds

Init ==
    /\ peers = [a \in Addresses |-> NoPeer]
    /\ task = [t \in Tasks |-> IdleTask]
    /\ calls = 0
    /\ self_calls = 0
    /\ handoffs = 0
    /\ slots = <<>>
    /\ requests = {}
    /\ issued = {}
    /\ queues = [k \in Keys |-> <<>>]
    /\ receiver_dropped = FALSE
    /\ observed = <<>>
    /\ pushes = 0

\* ------------------------------------------------- network collaborator
\* The network layer registers, re-identifies or removes a peer.
peer_connect(a, n) ==
    /\ peers[a] # n
    /\ peers' = [peers EXCEPT ![a] = n]
    /\ UNCHANGED <<task, calls, self_calls, handoffs, rpcVars, loopVars>>

peer_disconnect(a) ==
    /\ peers[a] # NoPeer
    /\ peers' = [peers EXCEPT ![a] = NoPeer]
    /\ UNCHANGED <<task, calls, self_calls, handoffs, rpcVars, loopVars>>

\* ------------------------------------------------------- Peer Resolver
\* Mutant: the handle a sender resolved last is kept and used again instead of
\* a lookup in the table.
peers_get_cached(a) ==
    LET known == {task[t].peer_id : t \in DirectSenders} \ {NoPeer}
    IN IF known # {} THEN CHOOSE n \in known : TRUE ELSE peers[a]

\* protocol_handler.peers.get(&peer_hash) followed by peer.read().get_id()
peers_get(a) == peers[a]

\* ------------------------------------------------------- Direct Sender
\* The protocol identifier given to with_context, at line 144 for a direct
\* send and at line 117 for an RPC request.
HSB_PROTOCOL_ID == "HSB_PROTOCOL_ID"

\* network.with_context(handler, HSB_PROTOCOL_ID, |io| msg.send(io, peer_id)):
\* the outer result is Err when no context can be obtained (the closure does
\* not run); otherwise it is Ok(r) with r the closure's own result.
\* "no_ctx" = Err(_), "send_err" = Ok(Err(_)), "ok" = Ok(Ok(()))
with_context(ctxOk, sendOk) ==
    IF ~ctxOk THEN "no_ctx" ELSE IF sendOk THEN "ok" ELSE "send_err"

\* .is_err() of the outer result
is_err(res) == res = "no_ctx"

\* Mutant: the hand-off's failure is given back to the caller of the send.
send_message_with_peer_id_propagate(t, ctxOk, sendOk) ==
    LET res == with_context(ctxOk, sendOk) IN
    /\ handoffs' = handoffs + 1
    /\ task' = [task EXCEPT
           ![t].attempts = Append(@, [idx |-> task[t].i,
                                      peer_id |-> task[t].peer_id,
                                      msg |-> task[t].msg,
                                      protocol |-> HSB_PROTOCOL_ID,
                                      result |-> res,
                                      warned |-> is_err(res)]),
           ![t].i = @ + 1,
           ![t].pc = IF task[t].op = "send_to_many" THEN "send_to_many"
                     ELSE "idle",
           ![t].ret = IF task[t].op = "send_to_many" THEN NoOutcome
                      ELSE IF res = "ok" THEN OkUnit
                      ELSE Outcome("Err", "NetworkError", 0)]

\* Mutant: a failed hand-off ends the whole send (the error is returned with
\* `?`), so the recipients after it are never tried.
send_message_with_peer_id_abort(t, ctxOk, sendOk) ==
    LET res == with_context(ctxOk, sendOk) IN
    /\ handoffs' = handoffs + 1
    /\ task' = [task EXCEPT
           ![t].attempts = Append(@, [idx |-> task[t].i,
                                      peer_id |-> task[t].peer_id,
                                      msg |-> task[t].msg,
                                      protocol |-> HSB_PROTOCOL_ID,
                                      result |-> res,
                                      warned |-> is_err(res)]),
           ![t].i = @ + 1,
           ![t].pc = IF task[t].op = "send_to_many" /\ res = "ok"
                     THEN "send_to_many" ELSE "idle",
           ![t].ret = IF res # "ok" THEN Outcome("Err", "NetworkError", 0)
                      ELSE IF task[t].op = "send_to_many" THEN NoOutcome
                      ELSE OkUnit]

\* send_message_with_peer_id: one hand-off attempt, warn!() when is_err().
\* The task's record of the attempt; the return value is ().
send_message_with_peer_id(t, ctxOk, sendOk) ==
    LET res == with_context(ctxOk, sendOk) IN
    /\ handoffs' = handoffs + 1
    /\ task' = [task EXCEPT
           ![t].attempts = Append(@, [idx |-> task[t].i,
                                      peer_id |-> task[t].peer_id,
                                      msg |-> task[t].msg,
                                      protocol |-> HSB_PROTOCOL_ID,
                                      result |-> res,
                                      warned |-> is_err(res)]),
           ![t].i = @ + 1,
           ![t].pc = IF task[t].op = "send_to_many" THEN "send_to_many"
                     ELSE "idle",
           ![t].ret = IF task[t].op = "send_to_many" THEN NoOutcome
                      ELSE OkUnit]

\* Mutant: a recipient without a peer is reported as an error.
send_to_miss_is_error(t, recipient, msg) ==
    /\ t \in DirectSenders
    /\ task[t].pc = "idle"
    /\ calls < MaxCalls
    /\ calls' = calls + 1
    /\ LET peer == peers_get(recipient)
           new == [IdleTask EXCEPT !.op = "send_to",
                       !.recipients = <<recipient>>, !.msg = msg, !.i = 1,
                       !.peer_id = peer, !.resolved = <<peer>>]
       IN task' = [task EXCEPT ![t] =
                     IF peer # NoPeer
                     THEN [new EXCEPT !.pc = "send_to_send"]
                     ELSE [new EXCEPT !.ret = Outcome("Err", "NetworkError", 0)]]
    /\ UNCHANGED <<peers, self_calls, handoffs, rpcVars, loopVars>>

\* send_to, lines 85-87 and 90: resolve; with no peer return Ok(()) at once.
send_to(t, recipient, msg) ==
    /\ t \in DirectSenders
    /\ task[t].pc = "idle"
    /\ calls < MaxCalls
    /\ calls' = calls + 1
    /\ LET peer == peers_get(recipient)
           new == [IdleTask EXCEPT !.op = "send_to",
                       !.recipients = <<recipient>>, !.msg = msg, !.i = 1,
                       !.peer_id = peer, !.resolved = <<peer>>]
       IN task' = [task EXCEPT ![t] =
                     IF peer # NoPeer
                     THEN [new EXCEPT !.pc = "send_to_send"]
                     ELSE [new EXCEPT !.ret = OkUnit]]
    /\ UNCHANGED <<peers, self_calls, handoffs, rpcVars, loopVars>>

\* Mutant: a recipient whose hand-off failed is taken out of the peer table
\* by the sender.
send_to_many_send_evict(t) ==
    /\ task[t].pc = "send_to_many_send"
    /\ \E ctxOk \in BOOLEAN, sendOk \in BOOLEAN :
          /\ send_message_with_peer_id(t, ctxOk, sendOk)
          /\ peers' = IF with_context(ctxOk, sendOk) = "ok" THEN peers
                      ELSE [peers EXCEPT ![task[t].recipients[task[t].i]] = NoPeer]
    /\ UNCHANGED <<calls, self_calls, rpcVars, loopVars>>

\* Mutant: the hand-off waits until the recipient is connected under the
\* handle that was resolved.
send_to_send_wait(t) ==
    /\ task[t].pc = "send_to_send"
    /\ peers[task[t].recipients[1]] = task[t].peer_id
    /\ \E ctxOk \in BOOLEAN, sendOk \in BOOLEAN :
           send_message_with_peer_id(t, ctxOk, sendOk)
    /\ UNCHANGED <<peers, calls, self_calls, rpcVars, loopVars>>

\* send_to, lines 88 and 90: the hand-off, then Ok(()).
send_to_send(t) ==
    /\ task[t].pc = "send_to_send"
    /\ \E ctxOk \in BOOLEAN, sendOk \in BOOLEAN :
           send_message_with_peer_id(t, ctxOk, sendOk)
    /\ UNCHANGED <<peers, calls, self_calls, rpcVars, loopVars>>

\* send_to_many, line 98: the call; the loop starts at the first recipient.
send_to_many(t, recipients, msg) ==
    /\ t \in DirectSenders
    /\ task[t].pc = "idle"
    /\ calls < MaxCalls
    /\ calls' = calls + 1
    /\ task' = [task EXCEPT ![t] =
                  [IdleTask EXCEPT !.op = "send_to_many",
                      !.recipients = recipients, !.msg = msg, !.i = 1,
                      !.pc = "send_to_many"]]
    /\ UNCHANGED <<peers, self_calls, handoffs, rpcVars, loopVars>>

\* Mutant: the recipients are treated as a set, so an address that was
\* already served in this call is not sent to again.
send_to_many_next_dedup(t) ==
    /\ task[t].pc = "send_to_many"
    /\ IF task[t].i > Len(task[t].recipients)
       THEN task' = [task EXCEPT ![t].pc = "idle", ![t].ret = OkUnit]
       ELSE LET peer == peers_get(task[t].recipients[task[t].i])
                skip == \/ peer = NoPeer
                        \/ \E j \in 1..(task[t].i - 1) :
                              task[t].recipients[j] = task[t].recipients[task[t].i]
            IN task' = [task EXCEPT
                          ![t].resolved = Append(@, peer),
                          ![t].peer_id = peer,
                          ![t].i = IF skip THEN @ + 1 ELSE @,
                          ![t].pc = IF skip THEN "send_to_many"
                                    ELSE "send_to_many_send"]
    /\ UNCHANGED <<peers, calls, self_calls, handoffs, rpcVars, loopVars>>

\* send_to_many, lines 98-101 and 105: next recipient, resolved afresh; an
\* unresolved one is skipped; after the last one the call returns Ok(()).
send_to_many_next(t) ==
    /\ task[t].pc = "send_to_many"
    /\ IF task[t].i > Len(task[t].recipients)
       THEN task' = [task EXCEPT ![t].pc = "idle", ![t].ret = OkUnit]
       ELSE LET peer == peers_get(task[t].recipients[task[t].i]) IN
            task' = [task EXCEPT
                       ![t].resolved = Append(@, peer),
                       ![t].peer_id = peer,
                       ![t].i = IF peer = NoPeer THEN @ + 1 ELSE @,
                       ![t].pc = IF peer = NoPeer THEN "send_to_many"
                                 ELSE "send_to_many_send"]
    /\ UNCHANGED <<peers, calls, self_calls, handoffs, rpcVars, loopVars>>

\* send_to_many, line 102: the hand-off to the resolved recipient.
send_to_many_send(t) ==
    /\ task[t].pc = "send_to_many_send"
    /\ \E ctxOk \in BOOLEAN, sendOk \in BOOLEAN :
           send_message_with_peer_id(t, ctxOk, sendOk)
    /\ UNCHANGED <<peers, calls, self_calls, rpcVars, loopVars>>

DirectNext ==
    \/ \E a \in Addresses, n \in NodeIds : peer_connect(a, n)
    \/ \E a \in Addresses : peer_disconnect(a)
    \/ \E t \in Tasks, a \in Addresses, m \in DirectMsgs : send_to(t, a, m)
    \/ \E t \in Tasks : send_to_send(t)
    \/ \E t \in Tasks, rs \in SeqsUpTo(Addresses, MaxRecipients), m \in DirectMsgs :
           send_to_many(t, rs, m)
    \/ \E t \in Tasks : send_to_many_next(t)
    \/ \E t \in Tasks : send_to_many_send(t)

\* ------------------------------------------------------ RPC Correlator
\* oneshot::channel(): a sender and a receiver around one empty cell.
\* `sends` and `awaits` count the uses of the two ends.
oneshot_channel ==
    [tx |-> "open", rx |-> "open", value |-> NoOutcome, sends |-> 0, awaits |-> 0]

\* Sender::send(v): consumes the sender; the value reaches the cell unless
\* the receiver is gone.
oneshot_send(slot, v) ==
    [slot EXCEPT !.tx = "used", !.sends = @ + 1,
                 !.value = IF slot.rx = "dropped" THEN @ ELSE v]

\* The sender is dropped without a send.
oneshot_drop_tx(slot) == [slot EXCEPT !.tx = "dropped"]

\* Mutant: a dropped sender is not noticed; only a value wakes the receiver.
oneshot_ready_value_only(slot) == slot.value # NoOutcome

\* The receiver is ready when the cell is full or the sender is gone.
oneshot_ready(slot) == slot.value # NoOutcome \/ slot.tx \in {"used", "dropped"}

\* res_rx.await?  -- Ok(inner) gives the inner result, Err(Canceled) is
\* converted by `?` into the call's error.
oneshot_recv(slot, id) ==
    IF slot.value # NoOutcome THEN slot.value ELSE Outcome("Err", "Canceled", id)

\* Box<dyn Request> as built by the caller: no notification attached yet.
Request(id, recipient) ==
    [id |-> id, recipient |-> recipient, res_tx |-> 0, protocol |-> "none"]

\* Mutant: the notification is kept in one place shared by the requests in
\* flight, so a request carries the sender of the call before it.
set_response_notification_shared(request, res_tx) ==
    [request EXCEPT !.res_tx = IF res_tx > 1 THEN res_tx - 1 ELSE res_tx]

\* request.set_response_notification(res_tx), line 119
set_response_notification(request, res_tx) == [request EXCEPT !.res_tx = res_tx]

\* request_manager.request_with_delay(io, request, recipient, None), lines
\* 120-122: the request manager takes the request over.
request_with_delay(reqs, request) == reqs \cup {request}

\* Mutant: the request is handed to the request manager first and the
\* notification attached to the caller's copy afterwards.
send_rpc_closure_attach_late(reqs, request, res_tx) ==
    request_with_delay(reqs, [request EXCEPT !.protocol = HSB_PROTOCOL_ID])

\* The closure given to with_context at lines 118-123; io is the context of
\* the protocol named at line 117, through which the request goes out.
send_rpc_closure(reqs, request, res_tx) ==
    request_with_delay(reqs,
        [set_response_notification(request, res_tx)
            EXCEPT !.protocol = HSB_PROTOCOL_ID])

\* Mutant: the notification is attached and the request registered before
\* the context is asked for, so a failed hand-off leaves a live request.
send_rpc_register_first(t, recipient, ctxOk) ==
    /\ task[t].pc = "idle"
    /\ calls < MaxCalls
    /\ calls' = calls + 1
    /\ LET id == calls + 1
           new == [IdleTask EXCEPT !.op = "send_rpc", !.id = id,
                       !.ctx = IF ctxOk THEN "ok" ELSE "no_ctx"]
       IN /\ requests' = send_rpc_closure(requests, Request(id, recipient), id)
          /\ issued' = issued \cup {id}
          /\ slots' = (id :> oneshot_channel) @@ slots
          /\ task' = [task EXCEPT ![t] =
                        IF ctxOk
                        THEN [new EXCEPT !.pc = "send_rpc_await",
                                         !.suspended = TRUE]
                        ELSE [new EXCEPT !.outcomes = 1, !.ret =
                                 Outcome("Err", "send rpc failed", id)]]
    /\ UNCHANGED <<peers, self_calls, handoffs, loopVars>>

\* send_rpc, lines 113-125: create the channel, hand the request off under
\* the context; Err("send rpc failed") when no context can be obtained,
\* otherwise the caller goes on to await the receiver.
send_rpc(t, recipient, ctxOk) ==
    /\ task[t].pc = "idle"
    /\ calls < MaxCalls
    /\ calls' = calls + 1
    /\ LET id == calls + 1
           new == [IdleTask EXCEPT !.op = "send_rpc", !.id = id,
                       !.ctx = IF ctxOk THEN "ok" ELSE "no_ctx"]
       IN IF ctxOk
          THEN /\ requests' = send_rpc_closure(requests, Request(id, recipient), id)
               /\ issued' = issued \cup {r.id : r \in requests' \ requests}
               /\ slots' = (id :> oneshot_channel) @@ slots
               /\ task' = [task EXCEPT ![t] =
                             [new EXCEPT !.pc = "send_rpc_await",
                                         !.suspended = TRUE]]
          ELSE /\ slots' = (id :> [oneshot_drop_tx(oneshot_channel)
                                     EXCEPT !.rx = "dropped"]) @@ slots
               /\ task' = [task EXCEPT ![t] =
                             [new EXCEPT !.outcomes = 1, !.ret =
                                 Outcome("Err", "send rpc failed", id)]]
               /\ UNCHANGED <<requests, issued>>
    /\ UNCHANGED <<peers, self_calls, handoffs, loopVars>>

\* Mutant: the caller is handed the outcome but stays registered as waiting,
\* so the same completion can be delivered again.
send_rpc_await_again(t) ==
    /\ task[t].pc = "send_rpc_await"
    /\ task[t].outcomes < 2
    /\ oneshot_ready(slots[task[t].id])
    /\ task' = [task EXCEPT ![t].outcomes = @ + 1,
                            ![t].ret = oneshot_recv(slots[task[t].id], task[t].id)]
    /\ slots' = [slots EXCEPT ![task[t].id].awaits = @ + 1]
    /\ UNCHANGED <<peers, calls, self_calls, handoffs, requests, issued, loopVars>>

\* send_rpc, line 126: the receiver is ready; the caller resumes with the
\* channel's content.
send_rpc_await(t) ==
    /\ task[t].pc = "send_rpc_await"
    /\ oneshot_ready(slots[task[t].id])
    /\ task' = [task EXCEPT ![t].pc = "idle",
                            ![t].outcomes = @ + 1,
                            ![t].ret = oneshot_recv(slots[task[t].id], task[t].id)]
    /\ slots' = [slots EXCEPT ![task[t].id].rx = "done",
                              ![task[t].id].awaits = @ + 1]
    /\ UNCHANGED <<peers, calls, self_calls, handoffs, requests, issued, loopVars>>

\* Mutant: the receiver outlives the cancelled future (it is leaked), so the
\* channel stays open at the receiving end.
send_rpc_cancel_leak(t) ==
    /\ task[t].pc = "send_rpc_await"
    /\ task' = [task EXCEPT ![t].pc = "idle",
                            ![t].ret = Outcome("none", "cancelled", task[t].id)]
    /\ UNCHANGED <<peers, calls, self_calls, handoffs, rpcVars, loopVars>>

\* The future of send_rpc is dropped while suspended at line 126: the
\* receiver goes with it.
send_rpc_cancel(t) ==
    /\ task[t].pc = "send_rpc_await"
    /\ task' = [task EXCEPT ![t].pc = "idle",
                            ![t].ret = Outcome("none", "cancelled", task[t].id)]
    /\ slots' = [slots EXCEPT ![task[t].id].rx = "dropped"]
    /\ UNCHANGED <<peers, calls, self_calls, handoffs, requests, issued, loopVars>>

\* The request manager settles a request it holds: through the request's
\* notification with a response, with an error (timeout, decode failure),
\* or by dropping the request.
rm_settle(r, v) ==
    /\ r \in requests
    /\ requests' = requests \ {r}
    /\ slots' = IF r.res_tx = 0 THEN slots
                ELSE [slots EXCEPT ![r.res_tx] = oneshot_send(@, v)]
    /\ UNCHANGED <<peers, task, calls, self_calls, handoffs, issued, loopVars>>

rm_respond(r) == rm_settle(r, Outcome("Ok", "response", r.id))

rm_fail(r) == rm_settle(r, Outcome("Err", "timeout", r.id))

rm_drop(r) ==
    /\ r \in requests
    /\ requests' = requests \ {r}
    /\ slots' = IF r.res_tx = 0 THEN slots
                ELSE [slots EXCEPT ![r.res_tx] = oneshot_drop_tx(@)]
    /\ UNCHANGED <<peers, task, calls, self_calls, handoffs, issued, loopVars>>

RpcNext ==
    \/ \E t \in Tasks, n \in NodeIds \cup {NoPeer}, ctxOk \in BOOLEAN :
           send_rpc(t, n, ctxOk)
    \/ \E t \in Tasks : send_rpc_await(t)
    \/ \E t \in Tasks : send_rpc_cancel(t)
    \/ \E r \in requests : rm_respond(r)
    \/ \E r \in requests : rm_fail(r)
    \/ \E r \in requests : rm_drop(r)

\* ------------------------------------------------------ Loopback Queue
\* Mutant: the tag is derived from the content of the envelope, not from its
\* variant.
discriminant_by_content(msg) ==
    IF msg.payload = "p1" THEN ConsensusMsg[4] ELSE ConsensusMsg[7]

\* mem::discriminant(&msg): the variant of the envelope, not its payload.
discriminant(msg) == msg.kind

\* Mutant: the queue is keyed by the sender alone; every envelope of one
\* address shares a key.
loopback_key_by_address(self_author, msg) == <<self_author, ConsensusMsg[4]>>

\* The key of line 136.
loopback_key(self_author, msg) == <<self_author, discriminant(msg)>>

\* consensus_messages_tx.push(key, item): the item joins the tail of the
\* key's queue.
push(qs, key, item) == [qs EXCEPT ![key] = Append(@, item)]

\* Mutant: the result of the push is discarded and Ok(()) returned.
send_self_msg_swallow(t, self_author, msg) ==
    /\ task[t].pc = "idle"
    /\ self_calls < MaxSelfMsgs
    /\ self_calls' = self_calls + 1
    /\ task' = [task EXCEPT ![t] =
                  [IdleTask EXCEPT !.op = "send_self_msg", !.ret = OkUnit]]
    /\ IF receiver_dropped
       THEN UNCHANGED <<queues, pushes>>
       ELSE /\ queues' = push(queues, loopback_key(self_author, msg),
                              [addr |-> self_author, msg |-> msg,
                               seq |-> pushes + 1])
            /\ pushes' = pushes + 1
    /\ UNCHANGED <<peers, calls, handoffs, rpcVars, receiver_dropped, observed>>

\* Mutant: the envelope is also sent out through the transport, as a message
\* to any other participant would be.
send_self_msg_via_network(t, self_author, msg) ==
    /\ task[t].pc = "idle"
    /\ self_calls < MaxSelfMsgs
    /\ self_calls' = self_calls + 1
    /\ handoffs' = handoffs + 1
    /\ IF receiver_dropped
       THEN /\ task' = [task EXCEPT ![t] =
                          [IdleTask EXCEPT !.op = "send_self_msg",
                              !.ret = Outcome("Err", "Channel is closed", 0)]]
            /\ UNCHANGED <<queues, pushes>>
       ELSE /\ queues' = push(queues, loopback_key(self_author, msg),
                              [addr |-> self_author, msg |-> msg,
                               seq |-> pushes + 1])
            /\ pushes' = pushes + 1
            /\ task' = [task EXCEPT ![t] =
                          [IdleTask EXCEPT !.op = "send_self_msg",
                              !.ret = OkUnit]]
    /\ UNCHANGED <<peers, calls, rpcVars, receiver_dropped, observed>>

\* send_self_msg, lines 133-136: push under (self_author, discriminant);
\* the push's own result is the call's result.
send_self_msg(t, self_author, msg) ==
    /\ task[t].pc = "idle"
    /\ self_calls < MaxSelfMsgs
    /\ self_calls' = self_calls + 1
    /\ IF receiver_dropped
       THEN /\ task' = [task EXCEPT ![t] =
                          [IdleTask EXCEPT !.op = "send_self_msg",
                              !.ret = Outcome("Err", "Channel is closed", 0)]]
            /\ UNCHANGED <<queues, pushes>>
       ELSE /\ queues' = push(queues, loopback_key(self_author, msg),
                              [addr |-> self_author, msg |-> msg,
                               seq |-> pushes + 1])
            /\ pushes' = pushes + 1
            /\ task' = [task EXCEPT ![t] =
                          [IdleTask EXCEPT !.op = "send_self_msg",
                              !.ret = OkUnit]]
    /\ UNCHANGED <<peers, calls, handoffs, rpcVars, receiver_dropped, observed>>

\* The local message loop takes the head of a non-empty key's queue.
consensus_messages_next(key) ==
    /\ ~receiver_dropped
    /\ queues[key] # <<>>
    /\ observed' = Append(observed, Head(queues[key]))
    /\ queues' = [queues EXCEPT ![key] = Tail(@)]
    /\ UNCHANGED <<peers, task, calls, self_calls, handoffs, rpcVars,
                   receiver_dropped, pushes>>

\* Shutdown: the receiving end of the loopback queue is dropped.
receiver_drop ==
    /\ ~receiver_dropped
    /\ receiver_dropped' = TRUE
    /\ UNCHANGED <<peers, task, calls, self_calls, handoffs, rpcVars, queues,
                   observed, pushes>>

SelfMsgs == [kind : SelfKinds, payload : Payloads]

LoopbackNext ==
    \/ \E t \in Tasks, a \in Addresses, m \in SelfMsgs : send_self_msg(t, a, m)
    \/ \E k \in Keys : consensus_messages_next(k)
    \/ receiver_drop

\* ------------------------------------------------------ specifications
\* The whole layer.  The three paths share no state but the callers, so each
\* is explored on its own below (SpecDirect, SpecRpc, SpecLoopback) and all
\* together on narrowed inputs (SpecFrame).
Next == DirectNext \/ RpcNext \/ LoopbackNext

Spec == Init /\ [][Next]_vars

\* The direct sender next to the network collaborator.
SpecDirect == Init /\ [][DirectNext]_vars

\* The RPC correlator next to the request manager.
SpecRpc == Init /\ [][RpcNext]_vars

\* The loopback queue next to its consumer.
SpecLoopback == Init /\ [][LoopbackNext]_vars

\* The four operations side by side with their collaborators, on one address,
\* one handle, one envelope and recipient sequences of at most one address.
FrameAddresses == {"A1"}
FrameNodeIds == {"n1"}
FrameMsgs == [kind : {ConsensusMsg[4]}, payload : {"p1"}]

FrameNext ==
    \/ \E a \in FrameAddresses, n \in FrameNodeIds : peer_connect(a, n)
    \/ \E a \in FrameAddresses : peer_disconnect(a)
    \/ \E t \in Tasks, a \in FrameAddresses, m \in DirectMsgs : send_to(t, a, m)
    \/ \E t \in Tasks : send_to_send(t)
    \/ \E t \in Tasks, rs \in SeqsUpTo(FrameAddresses, 1),
          m \in DirectMsgs : send_to_many(t, rs, m)
    \/ \E t \in Tasks : send_to_many_next(t)
    \/ \E t \in Tasks : send_to_many_send(t)
    \/ \E t \in Tasks : send_rpc(t, NoPeer, TRUE)
    \/ \E t \in Tasks : send_rpc_await(t)
    \/ \E r \in requests : rm_respond(r)
    \/ \E r \in requests : rm_drop(r)
    \/ \E t \in Tasks, a \in FrameAddresses, m \in FrameMsgs :
          send_self_msg(t, a, m)
    \/ \E k \in Keys : consensus_messages_next(k)

SpecFrame == Init /\ [][FrameNext]_vars

\* The loopback queue with its consumer, for one sender address and one
\* payload, under fairness: the local message loop keeps taking what is
\* queued, key by key.
FairLoopbackNext ==
    \/ \E t \in Tasks, a \in FrameAddresses,
          m \in [kind : SelfKinds, payload : {"p1"}] : send_self_msg(t, a, m)
    \/ \E k \in Keys : consensus_messages_next(k)
    \/ receiver_drop

FairSpecLoopback ==
    /\ Init /\ [][FairLoopbackNext]_vars
    /\ \A k \in Keys : WF_vars(consensus_messages_next(k))

\* Fairness of the RPC path: a caller whose receiver is ready is resumed, and
\* the request manager settles every request it holds (response, error,
\* timeout or drop).
FairSpecRpc ==
    /\ SpecRpc
    /\ \A t \in Tasks : WF_vars(send_rpc_await(t))
    /\ \A id \in 1..MaxCalls :
          WF_vars(\E r \in requests :
                     r.id = id /\ (rm_respond(r) \/ rm_fail(r) \/ rm_drop(r)))

\* ------------------------------------------------------------- claims
IsRpc(t) == task[t].op = "send_rpc"
Awaiting(t) == task[t].pc = "send_rpc_await"
Cancelled(t) == IsRpc(t) /\ task[t].ret.what = "cancelled"
Returned(t) == IsRpc(t) /\ task[t].pc = "idle" /\ ~Cancelled(t)

\* C1: every send_rpc call that is not abandoned delivers exactly one
\* terminal outcome to its caller, a response or a failure: none while it is
\* suspended, one and only one once it has returned, and a suspended call
\* always comes to return (or is abandoned), whatever the request manager
\* does with the requests in flight.
C1_OneOutcomeInv ==
    \A t \in Tasks : IsRpc(t) =>
        /\ task[t].outcomes <= 1
        /\ Awaiting(t) => task[t].outcomes = 0 /\ task[t].ret = NoOutcome
        /\ Returned(t) => task[t].outcomes = 1 /\ task[t].ret.tag \in {"Ok", "Err"}
        /\ Cancelled(t) => task[t].outcomes = 0

C1_ExactlyOneOutcome ==
    /\ []C1_OneOutcomeInv
    /\ \A t \in Tasks : Awaiting(t) ~> (Returned(t) \/ Cancelled(t))

\* C1 witness: two calls are out, one has returned a response while the
\* other has returned a failure.
C1_Witness ==
    \E t, u \in Tasks :
        /\ Returned(t) /\ task[t].ret.tag = "Ok" /\ task[t].suspended
        /\ Returned(u) /\ task[u].ret.tag = "Err" /\ task[u].suspended

IsSendTo(t) == task[t].op = "send_to"
IsSendToMany(t) == task[t].op = "send_to_many"
Idle(t) == task[t].pc = "idle"
HandoffFailed(a) == a.result # "ok"

\* C2 (as stated): send_to with a resolvable recipient returns success when
\* the transport accepts the hand-off and a network error when the hand-off
\* fails.
C2_ErrorOnFailedHandoff ==
    \A t \in Tasks : (IsSendTo(t) /\ Idle(t) /\ task[t].attempts # <<>>) =>
        /\ ~HandoffFailed(task[t].attempts[1]) => task[t].ret.tag = "Ok"
        /\ HandoffFailed(task[t].attempts[1]) => task[t].ret.tag = "Err"

\* C2 (amended): send_to with a resolvable recipient makes exactly one
\* hand-off attempt, to the resolved handle, and returns success whether the
\* transport accepts or rejects the hand-off: a failed hand-off is never
\* returned to the caller.
C2_SendToAlwaysOk ==
    \A t \in Tasks : (IsSendTo(t) /\ Idle(t) /\ task[t].resolved[1] # NoPeer) =>
        /\ Len(task[t].attempts) = 1
        /\ task[t].attempts[1].peer_id = task[t].resolved[1]
        /\ task[t].ret = OkUnit

\* C2 witness: a send_to whose hand-off failed has returned.
C2_Witness ==
    \E t \in Tasks :
        /\ IsSendTo(t) /\ Idle(t) /\ task[t].attempts # <<>>
        /\ HandoffFailed(task[t].attempts[1])

\* C3: a send_to to an address the peer table maps to no peer at the time of
\* the call returns success at once and hands nothing to the transport: the
\* hand-off counter is unchanged and the call has no further step.
C3_UnresolvedIsSilentOk ==
    [][\A t \in Tasks :
         (/\ calls' = calls + 1
          /\ task[t].pc = "idle"
          /\ \A u \in Tasks \ {t} : task'[u] = task[u]
          /\ task'[t].op = "send_to"
          /\ peers[task'[t].recipients[1]] = NoPeer)
         => /\ task'[t].pc = "idle"
            /\ task'[t].ret = OkUnit
            /\ task'[t].attempts = <<>>
            /\ handoffs' = handoffs]_vars

\* C3 witness: after an earlier hand-off, a send_to to an address without a
\* peer has returned.
C3_Witness ==
    \E t \in Tasks :
        /\ IsSendTo(t) /\ Idle(t) /\ task[t].resolved = <<NoPeer>>
        /\ task[t].ret = OkUnit /\ handoffs > 0

\* C4: in send_to_many every recipient is resolved, and every recipient that
\* resolves gets its own hand-off attempt to the handle it resolved to,
\* whatever happened to the recipients before it (no peer, or a hand-off
\* that failed).
C4_EveryResolvableAttempted ==
    \A t \in Tasks : IsSendToMany(t) =>
        /\ \A idx \in 1..Len(task[t].resolved) :
              (task[t].resolved[idx] # NoPeer /\ idx < task[t].i) =>
                  \E k \in 1..Len(task[t].attempts) :
                      /\ task[t].attempts[k].idx = idx
                      /\ task[t].attempts[k].peer_id = task[t].resolved[idx]
        /\ Idle(t) => /\ Len(task[t].resolved) = Len(task[t].recipients)
                      /\ task[t].i = Len(task[t].recipients) + 1

\* C4 witness: a send_to_many has returned whose first hand-off failed and
\* whose second recipient was still attempted.
C4_Witness ==
    \E t \in Tasks :
        /\ IsSendToMany(t) /\ Idle(t) /\ Len(task[t].attempts) = 2
        /\ HandoffFailed(task[t].attempts[1])

SlotOf(t) == slots[task[t].id]
SlotFailed(t) ==
    \/ SlotOf(t).value.tag = "Err"
    \/ SlotOf(t).value = NoOutcome /\ SlotOf(t).tx \in {"used", "dropped"}

\* C5: a suspended send_rpc whose slot gets no response (the request manager
\* reports an error or a timeout, or drops the request) comes to observe a
\* failure: the error put into the slot is the error returned, a dropped
\* sender is returned as a cancellation error, and a response is returned
\* only when one was put into the slot.
C5_PropagatedInv ==
    \A t \in Tasks : (Returned(t) /\ task[t].suspended) =>
        /\ SlotOf(t).value # NoOutcome => task[t].ret = SlotOf(t).value
        /\ SlotOf(t).value = NoOutcome =>
               task[t].ret = Outcome("Err", "Canceled", task[t].id)

C5_FailureObserved ==
    /\ []C5_PropagatedInv
    /\ \A t \in Tasks :
          (Awaiting(t) /\ SlotFailed(t)) ~>
              ((Returned(t) /\ task[t].ret.tag = "Err") \/ Cancelled(t))

\* C5 witness: a caller has resumed with the cancellation error of a request
\* that the request manager dropped.
C5_Witness ==
    \E t \in Tasks : Returned(t) /\ task[t].ret.what = "Canceled"

\* C6: a send_rpc whose hand-off fails returns its error at once, without
\* ever suspending; its slot is never fulfilled and its request never reaches
\* the request manager.
C6_FailedHandoffIsImmediate ==
    \A t \in Tasks : (IsRpc(t) /\ task[t].ctx = "no_ctx") =>
        /\ Idle(t)
        /\ ~task[t].suspended
        /\ task[t].ret = Outcome("Err", "send rpc failed", task[t].id)
        /\ SlotOf(t).sends = 0 /\ SlotOf(t).value = NoOutcome
        /\ task[t].id \notin issued
        /\ \A r \in requests : r.id # task[t].id /\ r.res_tx # task[t].id

\* C6 witness: a call failed at hand-off while another request is held by
\* the request manager.
C6_Witness ==
    \E t \in Tasks :
        /\ IsRpc(t) /\ task[t].ctx = "no_ctx" /\ Idle(t)
        /\ requests # {}

\* C7: outcomes are never cross-delivered: every request held by the request
\* manager carries the slot of its own call, a slot only ever holds an
\* outcome produced for its own request, and a caller that resumes gets the
\* outcome of its own request, in whatever order requests are settled.
C7_NoCrossDelivery ==
    /\ \A r \in requests : r.res_tx = r.id
    /\ \A id \in DOMAIN slots :
          slots[id].value # NoOutcome => slots[id].value.id = id
    /\ \A t \in Tasks : (Returned(t) /\ task[t].suspended) =>
          task[t].ret.id = task[t].id

\* C7 witness: of two outstanding calls the later one has returned its own
\* outcome while the earlier one is still suspended.
C7_Witness ==
    \E t, u \in Tasks :
        /\ Returned(t) /\ task[t].suspended /\ task[t].id = 2
        /\ task[t].ret.what \in {"response", "timeout"}
        /\ Awaiting(u) /\ task[u].id = 1

SameKey(x, y) == x.addr = y.addr /\ x.msg.kind = y.msg.kind
ObservedSeqs == {observed[i].seq : i \in 1..Len(observed)}
QueuedSeqs == UNION {{queues[k][n].seq : n \in 1..Len(queues[k])} : k \in Keys}
\* The places (a position of the consumer's log, or a position of a queue)
\* where the envelope stamped s is found.
Places(s) ==
    {<<<<"observed", "observed">>, i>> : i \in {j \in 1..Len(observed) : observed[j].seq = s}}
    \cup UNION {{<<k, n>> : n \in {m \in 1..Len(queues[k]) : queues[k][m].seq = s}} : k \in Keys}
SelfCallStep == self_calls' = self_calls + 1
SelfCaller(t) ==
    /\ task'[t].op = "send_self_msg"
    /\ \A u \in Tasks \ {t} : task'[u] = task[u]

\* C8: envelopes sent to self under one key (same address, same variant) are
\* observed by the consumer in the order in which they were enqueued, and
\* what is still queued under the key was enqueued after everything already
\* observed under it, whatever was enqueued under other keys in between.
C8_PerKeyFifo ==
    /\ \A i, j \in 1..Len(observed) :
          (i < j /\ SameKey(observed[i], observed[j])) =>
              observed[i].seq < observed[j].seq
    /\ \A i \in 1..Len(observed) : \A k \in Keys : \A n \in 1..Len(queues[k]) :
          SameKey(observed[i], queues[k][n]) => observed[i].seq < queues[k][n].seq

\* C8 witness: A and B went out under one key with an envelope of another
\* key between them; the consumer saw the other one first, then A, then B.
C8_Witness ==
    /\ Len(observed) = 3
    /\ observed[1].seq = 2 /\ observed[2].seq = 1 /\ observed[3].seq = 3
    /\ SameKey(observed[2], observed[3])
    /\ ~SameKey(observed[1], observed[2])
    /\ observed[2].msg.payload # observed[3].msg.payload

\* C9: send_self_msg never drops an envelope silently.  A call made after
\* the queue was torn down changes nothing and returns an error; every other
\* call returns Ok and leaves the envelope at the tail of a queue, however
\* many envelopes are already waiting; and every accepted envelope is
\* observed by the consumer unless the queue is torn down first.
C9_SelfStep ==
    SelfCallStep =>
        IF receiver_dropped
        THEN /\ queues' = queues /\ pushes' = pushes
             /\ \E t \in Tasks :
                   SelfCaller(t) /\ task'[t].ret = Outcome("Err", "Channel is closed", 0)
        ELSE /\ pushes' = pushes + 1
             /\ \E t \in Tasks : SelfCaller(t) /\ task'[t].ret = OkUnit
             /\ \E k \in Keys :
                   /\ Len(queues'[k]) = Len(queues[k]) + 1
                   /\ queues'[k][Len(queues'[k])].seq = pushes + 1
                   /\ \A k2 \in Keys \ {k} : queues'[k2] = queues[k2]

C9_NeverSilentlyDropped ==
    /\ [][C9_SelfStep]_vars
    /\ \A s \in 1..MaxSelfMsgs :
          (pushes >= s) ~> (receiver_dropped \/ s \in ObservedSeqs)

\* C9 witness: a third envelope was accepted under a key while two earlier
\* ones of the same key were still unconsumed, and all three were observed.
C9_Witness ==
    /\ Len(observed) = 3 /\ pushes = 3
    /\ SameKey(observed[1], observed[2]) /\ SameKey(observed[2], observed[3])
    /\ \E t \in Tasks : task[t].op = "send_self_msg" /\ task[t].ret = OkUnit

\* C10: one send_self_msg yields exactly one delivery, under the key of the
\* address it was given: every accepted envelope is queued or observed, and
\* exactly once; and the call touches neither the peer table nor the
\* transport nor the RPC path: the hand-off counter, the requests held by
\* the request manager and the slots are as they were.
C10_OnceInv ==
    /\ ObservedSeqs \cup QueuedSeqs = 1..pushes
    /\ \A s \in 1..pushes : Cardinality(Places(s)) = 1
    /\ \A k \in Keys : \A n \in 1..Len(queues[k]) :
          queues[k][n].addr = k[1] /\ queues[k][n].msg.kind = k[2]

C10_FrameStep ==
    SelfCallStep =>
        /\ handoffs' = handoffs /\ requests' = requests /\ slots' = slots
        /\ issued' = issued /\ peers' = peers /\ calls' = calls
        /\ observed' = observed

C10_OneDeliveryNoNetwork ==
    /\ []C10_OnceInv
    /\ [][C10_FrameStep]_vars

\* C10 witness: with a request outstanding and a hand-off already made, an
\* envelope sent to self has been observed by the consumer.
C10_Witness ==
    /\ handoffs > 0 /\ requests # {}
    /\ pushes = 1 /\ Len(observed) = 1
    /\ \E t \in Tasks : task[t].op = "send_self_msg" /\ task[t].ret = OkUnit

\* The requests held by the request manager that carry the sender of slot id.
HeldFor(id) == {r \in requests : r.res_tx = id}

\* C11: a completion slot is fulfilled at most once and awaited at most once,
\* and a request that was issued is, at every moment, in exactly one of three
\* conditions: still held with its slot untouched, settled with its slot
\* fulfilled exactly once, or given up by the request manager with the sender
\* dropped and nothing sent.  A slot of a failed hand-off is never fulfilled.
C11_FulfilledAwaitedOnce ==
    \A id \in DOMAIN slots :
       LET slot == slots[id] IN
       /\ slot.sends <= 1
       /\ slot.awaits <= 1
       /\ slot.value # NoOutcome => slot.sends = 1
       /\ slot.rx = "done" <=> slot.awaits = 1
       /\ Cardinality(HeldFor(id)) <= 1
       /\ IF id \in issued
          THEN \/ HeldFor(id) # {} /\ slot.tx = "open" /\ slot.sends = 0
               \/ HeldFor(id) = {} /\ slot.tx = "used" /\ slot.sends = 1
               \/ HeldFor(id) = {} /\ slot.tx = "dropped" /\ slot.sends = 0
          ELSE HeldFor(id) = {} /\ slot.sends = 0

\* Two calls, one fulfilled once and awaited once, the other fulfilled once
\* after its caller was cancelled.
C11_Witness ==
    \E id1, id2 \in DOMAIN slots :
       /\ id1 # id2
       /\ slots[id1].sends = 1 /\ slots[id1].awaits = 1
       /\ slots[id2].sends = 1 /\ slots[id2].rx = "dropped"
       /\ requests = {}

\* A step in which task t looks a recipient up: the start of a send_to call,
\* or send_to_many going on to its next recipient.
ResolvesSendTo(t) ==
    /\ task[t].pc = "idle" /\ calls' = calls + 1
    /\ task'[t].op = "send_to"
    /\ \A u \in Tasks \ {t} : task'[u] = task[u]

ResolvesNext(t) ==
    /\ task[t].pc = "send_to_many"
    /\ Len(task'[t].resolved) = Len(task[t].resolved) + 1

\* A step in which task t makes a hand-off attempt.
HandsOff(t) == Len(task'[t].attempts) = Len(task[t].attempts) + 1

C12_Step ==
    \A t \in DirectSenders :
       /\ ResolvesSendTo(t) =>
             task'[t].resolved = <<peers[task'[t].recipients[1]]>>
       /\ ResolvesNext(t) =>
             task'[t].resolved =
                Append(task[t].resolved, peers[task[t].recipients[task[t].i]])
       /\ HandsOff(t) =>
             LET att == task'[t].attempts[Len(task'[t].attempts)] IN
             /\ task[t].pc \in {"send_to_send", "send_to_many_send"}
             /\ att.idx = Len(task[t].resolved)
             /\ att.peer_id = task[t].resolved[att.idx]
             /\ att.peer_id # NoPeer
             /\ task'[t].resolved = task[t].resolved

\* C12: every lookup of a recipient by send_to or send_to_many reads the peer
\* table as it is at that step, and every hand-off goes to the handle of the
\* latest lookup of the same call - never to a handle kept from an earlier
\* lookup - whatever connects, disconnects or re-identifies in between.
C12_FreshLookup == [][C12_Step]_vars

\* One send_to_many call to the same address twice: the address changed its
\* handle between the two lookups and was disconnected afterwards, and the
\* two hand-offs went to the two different handles.
C12_Witness ==
    \E t \in DirectSenders :
       /\ IsSendToMany(t) /\ Idle(t)
       /\ task[t].recipients = <<"A1", "A1">>
       /\ Len(task[t].attempts) = 2
       /\ task[t].attempts[1].peer_id = "n1"
       /\ task[t].attempts[2].peer_id = "n2"
       /\ peers["A1"] = NoPeer

\* C13: direct sends and RPC requests go out under two distinct protocol
\* identifiers: no hand-off attempt of send_to or send_to_many carries the
\* identifier that a request held by the request manager went out under, and
\* no direct send has fulfilled a completion slot.
C13_DistinctChannels ==
    /\ \A t \in Tasks : \A k \in 1..Len(task[t].attempts) :
          \A r \in requests : task[t].attempts[k].protocol # r.protocol
    /\ \A id \in DOMAIN slots : slots[id].sends > 0 => id \in issued

\* The (handle, message) pairs of the hand-off attempts task t has made.
Made(t) ==
    [k \in 1..Len(task[t].attempts) |->
        [peer_id |-> task[t].attempts[k].peer_id, msg |-> task[t].attempts[k].msg]]

\* What send_to makes of one recipient that resolves to `handle`, repeated
\* over a sequence of such resolutions in order.
RECURSIVE SendToEach(_, _)
SendToEach(handles, msg) ==
    IF handles = <<>> THEN <<>>
    ELSE (IF Head(handles) = NoPeer THEN <<>>
          ELSE <<[peer_id |-> Head(handles), msg |-> msg]>>)
         \o SendToEach(Tail(handles), msg)

\* C14: send_to_many makes the attempts that send_to makes for each recipient
\* in order, duplicates included: a finished send_to has made SendToEach of
\* its one resolution, a send_to_many at the head of its loop has made
\* SendToEach of the resolutions so far, a finished one of the resolutions of
\* all its recipients, and both return Ok(()) whatever the attempts' results.
C14_SendToManyIsSendToEach ==
    \A t \in DirectSenders :
       /\ IsSendTo(t) /\ Idle(t) =>
             /\ Len(task[t].resolved) = 1
             /\ Made(t) = SendToEach(task[t].resolved, task[t].msg)
             /\ task[t].ret = OkUnit
       /\ IsSendToMany(t) /\ task[t].pc = "send_to_many" =>
             /\ Len(task[t].resolved) = task[t].i - 1
             /\ Made(t) = SendToEach(task[t].resolved, task[t].msg)
       /\ IsSendToMany(t) /\ task[t].pc = "send_to_many_send" =>
             /\ Len(task[t].resolved) = task[t].i
             /\ Made(t) = SendToEach(SubSeq(task[t].resolved, 1, task[t].i - 1),
                                     task[t].msg)
       /\ IsSendToMany(t) /\ Idle(t) =>
             /\ Len(task[t].resolved) = Len(task[t].recipients)
             /\ Made(t) = SendToEach(task[t].resolved, task[t].msg)
             /\ task[t].ret = OkUnit

\* A finished send_to_many to the same connected address twice: two attempts,
\* the first of them failed, and the call returned Ok(()).
C14_Witness ==
    \E t \in DirectSenders :
       /\ IsSendToMany(t) /\ Idle(t) /\ task[t].ret = OkUnit
       /\ task[t].recipients = <<"A2", "A2">>
       /\ task[t].resolved = <<"n1", "n1">>
       /\ Len(task[t].attempts) = 2
       /\ task[t].attempts[1].result # "ok"
       /\ task[t].attempts[2].result = "ok"

\* C15: a diagnostic is recorded for every hand-off that failed, whether no
\* network context could be obtained or the message's own send failed under
\* the context.
C15_EveryFailureLogged ==
    \A t \in Tasks : \A k \in 1..Len(task[t].attempts) :
       task[t].attempts[k].result \in {"no_ctx", "send_err"}
          => task[t].attempts[k].warned

\* C16: every request held by the request manager carries a completion slot,
\* attached before the request was handed over: its sender is that of a
\* channel that exists and has not been used or dropped, so whatever the
\* request manager produces for the request has a slot to go to.
C16_HeldRequestsCarrySlot ==
    \A r \in requests :
       /\ r.res_tx # 0
       /\ r.res_tx \in DOMAIN slots
       /\ slots[r.res_tx].tx = "open"
       /\ slots[r.res_tx].sends = 0

\* Two requests held at once, each with its own slot.
C16_Witness ==
    /\ Cardinality(requests) = 2
    /\ \A r \in requests : r.res_tx # 0
    /\ \A t \in Tasks : Awaiting(t)

IsSelfMsg(t) == task[t].op = "send_self_msg"

\* C17: send_rpc is the only operation that suspends.  A task inside send_to
\* or send_to_many can always take its next step, whatever the peers, the
\* consumer and the collaborators have or have not done, and takes at most
\* two steps per recipient; send_self_msg is over in its one step.  A task
\* is suspended in send_rpc only after a successful hand-off, and it can
\* resume exactly when its slot was fulfilled or its sender was dropped.
C17_OnlySendRpcSuspends ==
    \A t \in Tasks :
       /\ task[t].pc = "send_to_send" => ENABLED send_to_send(t)
       /\ task[t].pc = "send_to_many" => ENABLED send_to_many_next(t)
       /\ task[t].pc = "send_to_many_send" => ENABLED send_to_many_send(t)
       /\ IsSendTo(t) \/ IsSendToMany(t) =>
             /\ Len(task[t].resolved) <= Len(task[t].recipients)
             /\ Len(task[t].attempts) <= Len(task[t].resolved)
             /\ ~task[t].suspended
       /\ IsSelfMsg(t) => Idle(t) /\ ~task[t].suspended
       /\ task[t].pc \in {"idle", "send_to_send", "send_to_many",
                          "send_to_many_send", "send_rpc_await"}
       /\ task[t].pc = "send_rpc_await" =>
             /\ IsRpc(t) /\ task[t].ctx = "ok" /\ task[t].id \in issued
             /\ ENABLED send_rpc_await(t) <=>
                   \/ slots[task[t].id].sends > 0
                   \/ slots[task[t].id].tx = "dropped"
       /\ IsRpc(t) /\ task[t].ctx = "no_ctx" =>
             Idle(t) /\ ~task[t].suspended

\* One task is suspended in send_rpc, its slot untouched, while the other has
\* gone through a whole send_to with a hand-off, and self messages have been
\* pushed, none of them consumed.
C17_Witness ==
    \E t, u \in Tasks :
       /\ Awaiting(t) /\ slots[task[t].id].tx = "open"
       /\ ~ENABLED send_rpc_await(t)
       /\ IsSendTo(u) /\ Idle(u) /\ Len(task[u].attempts) = 1
       /\ pushes > 0 /\ observed = <<>>

\* Envelopes of every variant of ConsensusMsg, with any payload.
Envelopes == [kind : {ConsensusMsg[i] : i \in DOMAIN ConsensusMsg},
              payload : Payloads]

\* The envelopes that sit in the queues, each with the key of its queue.
Keyed == UNION {{[key |-> k, item |-> queues[k][n]] : n \in 1..Len(queues[k])}
                  : k \in Keys}

\* C18: the loopback key is the pair of the sender's address and the variant
\* of the envelope and depends on nothing else: for every address and every
\* envelope of every variant and payload the key is that pair, so two keys
\* are equal exactly when address and variant are; and the envelopes that
\* were pushed sit under the same key exactly when they agree in address and
\* variant, whatever their payloads.
C18_KeyIsAddressAndKind ==
    /\ \A a \in Addresses : \A m \in Envelopes :
          /\ loopback_key(a, m) = <<a, m.kind>>
          /\ \A p \in Payloads :
                loopback_key(a, [m EXCEPT !.payload = p]) = loopback_key(a, m)
    /\ \A e1, e2 \in Keyed :
          e1.key = e2.key
             <=> /\ e1.item.addr = e2.item.addr
                 /\ e1.item.msg.kind = e2.item.msg.kind

\* Two envelopes of one variant and different payloads under one key, and an
\* envelope of another variant from the same address under another key.
C18_Witness ==
    \E e1, e2, e3 \in Keyed :
       /\ e1.key = e2.key /\ e1.item.msg.payload # e2.item.msg.payload
       /\ e3.key # e1.key /\ e3.item.addr = e1.item.addr

\* The slot of call id belongs to a request that was issued and whose caller
\* was cancelled while suspended.
CancelledSlot(id) ==
    id \in DOMAIN slots /\ id \in issued /\ slots[id].rx = "dropped"

C19_ReleasedInv ==
    /\ \A t \in Tasks : Cancelled(t) =>
          /\ Idle(t) /\ task[t].outcomes = 0
          /\ CancelledSlot(task[t].id)
    /\ \A id \in DOMAIN slots : CancelledSlot(id) =>
          /\ slots[id].awaits = 0
          /\ \A t \in Tasks : IsRpc(t) /\ task[t].id = id => Cancelled(t)

\* C19: when the task suspended in send_rpc is cancelled, the receiving end
\* of its slot is released at once; from then on no fulfilment of the slot
\* changes what the slot holds or hands anything to any caller (the slot is
\* never awaited and its caller got no outcome), and - the request
\* manager settling what it holds - the request eventually leaves the request
\* manager and the slot's sender is eventually used up or dropped.
C19_CancelReleasesSlot ==
    /\ []C19_ReleasedInv
    /\ [][\A id \in DOMAIN slots : CancelledSlot(id) =>
             /\ slots'[id].value = slots[id].value
             /\ slots'[id].awaits = slots[id].awaits
             /\ slots'[id].rx = slots[id].rx]_vars
    /\ \A id \in 1..MaxCalls :
          CancelledSlot(id) ~>
             (HeldFor(id) = {} /\ id \in DOMAIN slots /\ slots[id].tx # "open")

\* A call was cancelled, the request manager answered its request afterwards:
\* nothing is held any more, the sender was used, and the answer went nowhere.
C19_Witness ==
    \E t \in Tasks :
       /\ Cancelled(t)
       /\ HeldFor(task[t].id) = {}
       /\ slots[task[t].id].tx = "used" /\ slots[task[t].id].sends = 1
       /\ slots[task[t].id].value = NoOutcome

\* A step of the network collaborator on the peer table: one address is
\* connected, re-identified or disconnected, and nothing of this layer moves.
PeerTableStep ==
    /\ \E a \in Addresses, n \in NodeIds \cup {NoPeer} :
          peers' = [peers EXCEPT ![a] = n]
    /\ UNCHANGED <<task, calls, self_calls, handoffs, rpcVars, loopVars>>

\* C20: the peer table is only read by this layer: every step that changes
\* it is a step of the network collaborator alone, and no step in which a
\* caller of send_to, send_to_many, send_rpc or send_self_msg moves, or a
\* hand-off, a request, a slot or the loopback queue changes, changes it.
C20_PeerTableReadOnly == [][peers' # peers => PeerTableStep]_vars

\* The table holds a peer; a send_to_many has handed off to it, a send_rpc
\* has come back, and a self message was pushed.
C20_Witness ==
    /\ peers["A1"] = "n1"
    /\ \E t, u \in Tasks :
          /\ IsSendToMany(t) /\ Idle(t) /\ Len(task[t].attempts) = 1
          /\ Returned(u) /\ task[u].outcomes = 1
    /\ pushes > 0
====
